---- MODULE Spec2Model ----
(***************************************************************************)
(* Batch scheduling engine of backend/app/services/batch_processing.py and *)
(* the Celery entry points of backend/app/tasks/batch_tasks.py.            *)
(*                                                                         *)
(* One batch record lives in the shared store.  Several invocations of     *)
(* execute_batch (API background tasks, process_batch_task with its        *)
(* retries) and one optimize_batch_execution_task run against it, each     *)
(* with its own in-memory BatchJob copy; every store access is one step.   *)
(***************************************************************************)
EXTENDS Integers, Sequences, FiniteSets, TLC

\* ------------------------------------------------------------------------
\* Bounds of the model
\* ------------------------------------------------------------------------
MaxProjects == 2
MaxExec == 2
MaxFaults == 1
MaxPlanLen == 6
GateProjects == 4
MaxRequestLen == 3
MaxRequestId == 2
MaxGroupSize == 6
MaxParallelLimit == 6
MaxPlanProjects == 10
MaxAnalysedProjects == 41
MaxTargetHours == 8
MaxLevelProjects == 2
MaxHandTasks == 3

\* ------------------------------------------------------------------------
\* Program constants
\* ------------------------------------------------------------------------
PRIORITY_LOW == 1
PRIORITY_NORMAL == 5
PRIORITY_HIGH == 8
PRIORITY_URGENT == 10
DefaultParallelLimit == 3
OptimizerParallelLimit == 5
max_retries == 2
max_projects_per_batch == 50
OriginalBatchId == 1
RecoveryBatchId == 2

Execs == 1..MaxExec
Min(a, b) == IF a <= b THEN a ELSE b
Max(a, b) == IF a >= b THEN a ELSE b

ProjectIds == 1..Max(MaxProjects, GateProjects)

SeqToSet(s) == {s[i] : i \in 1..Len(s)}

\* ------------------------------------------------------------------------
\* Inputs of create_batch used by the scheduler model
\* ------------------------------------------------------------------------
SettingsChoices ==
    { [generate_content |-> TRUE,  generate_tts |-> TRUE,  video_quality |-> "medium", advanced_video |-> FALSE],
      [generate_content |-> TRUE,  generate_tts |-> FALSE, video_quality |-> "medium", advanced_video |-> TRUE],
      [generate_content |-> FALSE, generate_tts |-> TRUE,  video_quality |-> "ultra",  advanced_video |-> FALSE],
      [generate_content |-> FALSE, generate_tts |-> FALSE, video_quality |-> "medium", advanced_video |-> FALSE] }

StrategyChoices == {"speed"}

\* the keys of BatchOptimizer.optimization_strategies
AllStrategies == {"speed", "cost", "quality", "balanced"}

\* settings of the batches used where several invocations interleave
StoreSettingsChoices ==
    { [generate_content |-> FALSE, generate_tts |-> FALSE, video_quality |-> "medium", advanced_video |-> FALSE] }

\* Samples returned by ResourceMonitor.get_available_resources
ResourceSamples ==
    { [cpu_cores |-> 1, memory_mb |-> 1024,  gpu_count |-> 0],
      [cpu_cores |-> 8, memory_mb |-> 16384, gpu_count |-> 1] }

\* BatchProcessingService.resource_requirements
resource_requirements ==
    [ content        |-> [cpu_cores |-> 1, memory_mb |-> 512,  gpu_count |-> 0],
      tts            |-> [cpu_cores |-> 1, memory_mb |-> 1024, gpu_count |-> 0],
      video          |-> [cpu_cores |-> 2, memory_mb |-> 2048, gpu_count |-> 0],
      advanced_video |-> [cpu_cores |-> 4, memory_mb |-> 4096, gpu_count |-> 0],
      ultra_video    |-> [cpu_cores |-> 4, memory_mb |-> 8192, gpu_count |-> 1] ]

\* ------------------------------------------------------------------------
\* BatchOptimizer: plan construction
\* ------------------------------------------------------------------------
VideoTaskType(settings) ==
    IF settings.video_quality = "ultra" THEN "ultra_video"
    ELSE IF settings.advanced_video THEN "advanced_video"
    ELSE "video"

VideoQueue(settings) ==
    IF settings.video_quality = "ultra" THEN "gpu" ELSE "video"

VideoTimeout(settings) ==
    IF settings.video_quality = "ultra" THEN 3600
    ELSE IF settings.advanced_video THEN 1800
    ELSE 900

ContentTask(project_id) ==
    [project_id |-> project_id, type |-> "content", task_name |-> "generate_content",
     queue |-> "content", priority |-> 1, timeout |-> 300, depends_on |-> <<>>]

TtsTask(project_id, settings) ==
    [project_id |-> project_id, type |-> "tts", task_name |-> "generate_tts",
     queue |-> "content", priority |-> 2, timeout |-> 300,
     depends_on |-> IF settings.generate_content THEN <<"content">> ELSE <<>>]

VideoTask(project_id, settings) ==
    [project_id |-> project_id, type |-> VideoTaskType(settings),
     task_name |-> "generate_" \o VideoTaskType(settings),
     queue |-> VideoQueue(settings), priority |-> 3, timeout |-> VideoTimeout(settings),
     depends_on |-> IF settings.generate_tts THEN <<"tts">> ELSE <<>>]

\* _create_project_tasks: the chain content -> tts -> render of one project
CreateProjectTasks(project_id, settings) ==
    (IF settings.generate_content THEN <<ContentTask(project_id)>> ELSE <<>>)
    \o (IF settings.generate_tts THEN <<TtsTask(project_id, settings)>> ELSE <<>>)
    \o <<VideoTask(project_id, settings)>>

OptimizeForSpeedMutant(tasks) == tasks

\* _optimize_for_speed
OptimizeForSpeed(tasks) ==
    [i \in 1..Len(tasks) |-> [tasks[i] EXCEPT !.priority = PRIORITY_HIGH]]

\* _optimize_for_cost
OptimizeForCost(tasks) ==
    [i \in 1..Len(tasks) |->
        [tasks[i] EXCEPT !.priority = PRIORITY_LOW,
                         !.queue = IF tasks[i].type = "advanced_video" /\ tasks[i].queue = "gpu"
                                   THEN "video" ELSE tasks[i].queue]]

\* optimization_strategies.get(strategy, _optimize_balanced); the quality
\* strategy only touches kwargs, which the model does not carry
ApplyStrategy(strategy, tasks) ==
    IF strategy = "speed" THEN OptimizeForSpeed(tasks)
    ELSE IF strategy = "cost" THEN OptimizeForCost(tasks)
    ELSE tasks

\* the per-project loop of optimize_batch
RECURSIVE FlattenProjects(_, _, _)
FlattenProjects(project_ids, settings, strategy) ==
    IF project_ids = <<>> THEN <<>>
    ELSE ApplyStrategy(strategy, CreateProjectTasks(Head(project_ids), settings))
         \o FlattenProjects(Tail(project_ids), settings, strategy)

DepsSatisfiedMutant(task, completed_types) == task.depends_on = <<>>

\* all(dep in completed_types for dep in deps)
DepsSatisfied(task, completed_types) ==
    \A k \in 1..Len(task.depends_on) : task.depends_on[k] \in completed_types

\* one pass of the for loop of _sort_execution_plan over execution_plan[i..]
RECURSIVE SortPass(_, _, _, _)
SortPass(execution_plan, i, sorted_plan, completed_types) ==
    IF i > Len(execution_plan) THEN [sorted_plan |-> sorted_plan, completed_types |-> completed_types]
    ELSE LET task == execution_plan[i] IN
         IF task \in SeqToSet(sorted_plan)
         THEN SortPass(execution_plan, i + 1, sorted_plan, completed_types)
         ELSE IF DepsSatisfied(task, completed_types)
         THEN SortPass(execution_plan, i + 1, Append(sorted_plan, task),
                       completed_types \cup {task.type})
         ELSE SortPass(execution_plan, i + 1, sorted_plan, completed_types)

\* the while loop of _sort_execution_plan; a pass that places nothing would
\* repeat forever in the code and is cut off here
RECURSIVE SortLoop(_, _, _)
SortLoop(execution_plan, sorted_plan, completed_types) ==
    IF Len(sorted_plan) >= Len(execution_plan) THEN sorted_plan
    ELSE LET r == SortPass(execution_plan, 1, sorted_plan, completed_types) IN
         IF Len(r.sorted_plan) = Len(sorted_plan) THEN sorted_plan
         ELSE SortLoop(execution_plan, r.sorted_plan, r.completed_types)

SortExecutionPlanMutant(execution_plan) ==
    [i \in 1..Len(execution_plan) |-> execution_plan[Len(execution_plan) + 1 - i]]

SortExecutionPlan(execution_plan) == SortLoop(execution_plan, <<>>, {})

\* optimize_batch
OptimizeBatch(batch_job) ==
    SortExecutionPlan(FlattenProjects(batch_job.project_ids, batch_job.settings,
                                      batch_job.metadata.optimization_strategy))

\* ------------------------------------------------------------------------
\* Scheduler helpers
\* ------------------------------------------------------------------------
RECURSIVE DistinctTypes(_, _)
DistinctTypes(execution_plan, seen) ==
    IF execution_plan = <<>> THEN <<>>
    ELSE IF Head(execution_plan).type \in seen THEN DistinctTypes(Tail(execution_plan), seen)
    ELSE <<Head(execution_plan).type>>
         \o DistinctTypes(Tail(execution_plan), seen \cup {Head(execution_plan).type})

Reverse(s) == [i \in 1..Len(s) |-> s[Len(s) + 1 - i]]

GroupNamesMutant(execution_plan) == Reverse(DistinctTypes(execution_plan, {}))

\* _group_tasks_by_resources: the keys of the dict, in insertion order
GroupNames(execution_plan) == DistinctTypes(execution_plan, {})

\* _group_tasks_by_resources: the list stored under one key
GroupTasks(execution_plan, group_name) ==
    SelectSeq(execution_plan, LAMBDA t : t.type = group_name)

\* max(1, min(max_by_cpu, max_by_memory, max_by_gpu)) of _calculate_concurrency
ResourceCap(available, task_type) ==
    LET requirements == resource_requirements[task_type]
        max_by_cpu == available.cpu_cores \div requirements.cpu_cores
        max_by_memory == available.memory_mb \div requirements.memory_mb
        byCpuMem == Min(max_by_cpu, max_by_memory)
    IN  Max(1, IF requirements.gpu_count > 0
               THEN Min(byCpuMem, available.gpu_count \div requirements.gpu_count)
               ELSE byCpuMem)

\* _calculate_concurrency
CalculateConcurrency(available, task_type, task_count) ==
    Min(Min(ResourceCap(available, task_type), OptimizerParallelLimit), task_count)

\* ------------------------------------------------------------------------
\* State
\* ------------------------------------------------------------------------
VARIABLES
    store,      \* the record under batch:<id> in the shared store (status "none": no record)
    progress,   \* the hash batch:progress:<id>: project id -> status of its entry ("absent": no entry)
    pc,         \* position of each execute_batch invocation
    via,        \* how the invocation was started: "api" background task or "celery" process_batch_task
    retries,    \* self.request.retries of process_batch_task
    job,        \* the invocation's in-memory BatchJob
    plan,       \* execution_plan of the invocation
    gi,         \* index of the task group being processed
    conc,       \* value the group's semaphore was created with
    ts,         \* per task of the current group: state of its process_with_semaphore coroutine
    results,    \* the results dict of _execute_with_resources
    exc,        \* the exception the invocation is handling or has raised ("" none)
    subCount,   \* backend: number of submissions received per <<project, type>>
    subm,       \* per invocation: tasks it has submitted to the backend
    term,       \* per invocation: tasks whose _process_single_task has ended
    caught,     \* per invocation: tasks whose _process_single_task entered its except branch
    initCount,  \* number of init_batch calls that have run for the batch
    faults,     \* number of injected infrastructure errors so far
    optpc,      \* position of optimize_batch_execution_task
    optJob,     \* its in-memory BatchJob
    lastPct,    \* progress_percentage returned by the latest get_batch_progress call
    calls,      \* backend: the submit_priority_task calls received so far
    userIndex,  \* whether the key batch:user:<user>:<id> of the batch exists
    create,     \* a create_batch call: its arguments, the project rows and its outcome
    recpc,      \* position of the recovery operation on the batch
    rec,        \* locals of the recovery operation
    recStore,   \* the record of the recovery batch in the shared store
    ccall,      \* a _calculate_concurrency call: its inputs and its result
    pcall,      \* an optimize_batch call: its inputs and its result
    ocall,      \* an optimize_batch_settings call: its inputs and its outcome
    gcall,      \* a _group_by_dependencies call: its plan and the levels returned
    track       \* the tasks maps of the progress entries, with the reports made so far

vars == <<store, progress, pc, via, retries, job, plan, gi, conc, ts, results, exc,
          subCount, subm, term, caught, initCount, faults, optpc, optJob, lastPct,
          calls, userIndex, create, recpc, rec, recStore, ccall, pcall,
          ocall, gcall, track>>

execVars == <<pc, via, retries, job, plan, gi, conc, ts, results, exc, subm, term, caught>>
optVars == <<optpc, optJob>>
recVars == <<recpc, rec, recStore>>
callVars == <<create, ccall, pcall, ocall, gcall, track>>

TaskTypes == {"content", "tts", "video", "advanced_video", "ultra_video"}
TaskKeys == ProjectIds \X TaskTypes

EmptyResults == [successful |-> <<>>, failed |-> <<>>, skipped |-> <<>>, error |-> ""]

NoSettings == [generate_content |-> FALSE, generate_tts |-> FALSE,
               video_quality |-> "medium", advanced_video |-> FALSE]

NoMetadata == [optimization_strategy |-> "balanced", parallel_limit |-> 0, video_quality |-> ""]

\* what redis GET returns for a missing key, as a record of the same shape
NoRecord ==
    [status |-> "none", progress |-> 0, results |-> EmptyResults, project_ids |-> <<>>,
     settings |-> NoSettings, priority |-> PRIORITY_NORMAL, metadata |-> NoMetadata]

\* the fields _store_batch_job serialises: parallel_limit, started_at and
\* completed_at are not among them
StoredFields(batch_job) ==
    [status |-> batch_job.status, progress |-> batch_job.progress,
     results |-> batch_job.results, project_ids |-> batch_job.project_ids,
     settings |-> batch_job.settings, priority |-> batch_job.priority,
     metadata |-> batch_job.metadata]

\* the BatchJob _get_batch_job builds: the dataclass defaults fill the rest
LoadedJob(data) ==
    [status |-> data.status, progress |-> data.progress, results |-> data.results,
     project_ids |-> data.project_ids, settings |-> data.settings,
     priority |-> data.priority, metadata |-> data.metadata,
     parallel_limit |-> DefaultParallelLimit, started_at |-> FALSE, completed_at |-> FALSE]

NoJob == LoadedJob(NoRecord)

\* a field of the hash batch:progress:<id>: no entry, and the entry init_batch writes
NoEntry == [status |-> "absent", detail |-> ""]
PendingEntry == [status |-> "pending", detail |-> ""]

\* a process_with_semaphore coroutine: st is its position, res the value
\* _wait_for_task returned, err the text of the exception it caught
NewTask == [st |-> "gate", res |-> "", err |-> ""]

Terminal == {"ret_success", "ret_failed", "exc"}
HoldsSemaphore == {"waiting", "caught"}
InFlightStates == {"waiting"}

Count(e, states) == Cardinality({i \in 1..Len(ts[e]) : ts[e][i].st \in states})

CurrentGroupName(e) == GroupNames(plan[e])[gi[e]]
CurrentTasks(e) == GroupTasks(plan[e], CurrentGroupName(e))
TaskKey(task) == <<task.project_id, task.type>>

\* idle values of the observed calls and of the recovery operation
NoCreate == [state |-> "idle", project_ids |-> <<>>, db |-> <<>>, lookup |-> "", error |-> ""]
NoCcall == [state |-> "idle", available |-> [cpu_cores |-> 0, memory_mb |-> 0, gpu_count |-> 0],
            task_type |-> "", task_count |-> 0, parallel_limit |-> 0, result |-> 0]
NoPcall == [state |-> "idle", n |-> 0, settings |-> NoSettings, strategy |-> "", plan |-> <<>>]
NoOcall == [state |-> "idle", rows |-> 0, has_target |-> FALSE, hours |-> 0, settings |-> NoMetadata,
            error |-> ""]
NoGcall == [state |-> "idle", execution_plan |-> <<>>, levels |-> <<>>]
NoTrack == [entries |-> <<>>, reported |-> <<>>]
NoRec == [kind |-> "", retry_failed_only |-> FALSE, failed_at_call |-> <<>>,
          ids_at_call |-> <<>>, project_ids |-> <<>>, settings |-> NoSettings,
          db |-> <<>>, error |-> ""]
NoRecoveryRecord ==
    [batch_id |-> 0, status |-> "none", progress |-> 0, results |-> EmptyResults,
     project_ids |-> <<>>, settings |-> NoSettings, priority |-> PRIORITY_NORMAL,
     metadata |-> [original_batch |-> 0, recovery_attempt |-> 0, retry_failed_only |-> FALSE]]

\* no invocation of execute_batch or of the optimize task has started
ExecInit ==
    /\ pc = [e \in Execs |-> "idle"]
    /\ via = [e \in Execs |-> "none"]
    /\ retries = [e \in Execs |-> 0]
    /\ job = [e \in Execs |-> NoJob]
    /\ plan = [e \in Execs |-> <<>>]
    /\ gi = [e \in Execs |-> 0]
    /\ conc = [e \in Execs |-> 0]
    /\ ts = [e \in Execs |-> <<>>]
    /\ results = [e \in Execs |-> EmptyResults]
    /\ exc = [e \in Execs |-> ""]
    /\ subCount = [k \in TaskKeys |-> 0]
    /\ subm = [e \in Execs |-> {}]
    /\ term = [e \in Execs |-> {}]
    /\ caught = [e \in Execs |-> {}]
    /\ initCount = 0
    /\ faults = 0
    /\ optpc = "idle"
    /\ optJob = NoJob
    /\ lastPct = 0
    /\ calls = {}

\* no recovery has started
RecInit ==
    /\ recpc = "idle"
    /\ rec = NoRec
    /\ recStore = NoRecoveryRecord

\* no call of create_batch, _calculate_concurrency or optimize_batch is observed
CallInit ==
    /\ create = NoCreate
    /\ ccall = NoCcall
    /\ pcall = NoPcall
    /\ ocall = NoOcall
    /\ gcall = NoGcall
    /\ track = NoTrack

Init ==
    /\ store = NoRecord
    /\ userIndex = FALSE
    /\ progress = [p \in ProjectIds |-> NoEntry]
    /\ ExecInit
    /\ RecInit
    /\ CallInit

\* ------------------------------------------------------------------------
\* create_batch and the entry points of execute_batch
\* ------------------------------------------------------------------------
CanFault == faults < MaxFaults

\* create_batch with n valid projects: the record is stored pending
CreateBatch(n, settings, strategy, priority) ==
    /\ store.status = "none"
    /\ n * Len(CreateProjectTasks(1, settings)) <= MaxPlanLen
    /\ store' = [status |-> "pending", progress |-> 0, results |-> EmptyResults,
                 project_ids |-> [i \in 1..n |-> i], settings |-> settings,
                 priority |-> priority,
                 metadata |-> [NoMetadata EXCEPT !.optimization_strategy = strategy]]
    /\ UNCHANGED <<progress, execVars, subCount, initCount, faults, optVars, lastPct>>
    /\ userIndex' = TRUE
    /\ UNCHANGED <<calls, recVars, callVars>>

\* start_batch_processing (and auto_start of the create endpoint): the
\* pending check is made here, execute_batch runs later as a background task
StartApi(e) ==
    /\ pc[e] = "idle"
    /\ store.status = "pending"
    /\ pc' = [pc EXCEPT ![e] = "scheduled"]
    /\ via' = [via EXCEPT ![e] = "api"]
    /\ UNCHANGED <<store, progress, retries, job, plan, gi, conc, ts, results, exc,
                   subCount, subm, term, caught, initCount, faults, optVars, lastPct>>
    /\ UNCHANGED <<calls, userIndex, recVars, callVars>>

\* process_batch_task.delay(batch_id): no check of the stored status
StartCelery(e) ==
    /\ pc[e] = "idle"
    /\ pc' = [pc EXCEPT ![e] = "scheduled"]
    /\ via' = [via EXCEPT ![e] = "celery"]
    /\ UNCHANGED <<store, progress, retries, job, plan, gi, conc, ts, results, exc,
                   subCount, subm, term, caught, initCount, faults, optVars, lastPct>>
    /\ UNCHANGED <<calls, userIndex, recVars, callVars>>

\* raise self.retry(exc=e) of process_batch_task: execute_batch runs again
Retry(e) ==
    /\ pc[e] = "raised"
    /\ via[e] = "celery"
    /\ retries[e] < max_retries
    /\ retries' = [retries EXCEPT ![e] = @ + 1]
    /\ pc' = [pc EXCEPT ![e] = "scheduled"]
    /\ UNCHANGED <<store, progress, via, job, plan, gi, conc, ts, results, exc,
                   subCount, subm, term, caught, initCount, faults, optVars, lastPct>>
    /\ UNCHANGED <<calls, userIndex, recVars, callVars>>

\* ------------------------------------------------------------------------
\* execute_batch: the driver
\* ------------------------------------------------------------------------
FoundMutant(data) == TRUE

\* if not batch_job, negated: _get_batch_job returned a BatchJob
Found(data) == data.status # "none"

\* batch_job = await self._get_batch_job(batch_id); raise if not found
GetBatchJob(e) ==
    /\ pc[e] = "scheduled"
    /\ plan' = [plan EXCEPT ![e] = <<>>]
    /\ gi' = [gi EXCEPT ![e] = 0]
    /\ conc' = [conc EXCEPT ![e] = 0]
    /\ ts' = [ts EXCEPT ![e] = <<>>]
    /\ results' = [results EXCEPT ![e] = EmptyResults]
    /\ subm' = [subm EXCEPT ![e] = {}]
    /\ term' = [term EXCEPT ![e] = {}]
    /\ caught' = [caught EXCEPT ![e] = {}]
    /\ \/ /\ Found(store)
          /\ job' = [job EXCEPT ![e] = LoadedJob(store)]
          /\ pc' = [pc EXCEPT ![e] = "got"]
          /\ exc' = [exc EXCEPT ![e] = ""]
          /\ UNCHANGED faults
       \/ /\ ~Found(store)
          /\ job' = [job EXCEPT ![e] = NoJob]
          /\ pc' = [pc EXCEPT ![e] = "raised"]
          /\ exc' = [exc EXCEPT ![e] = "not_found"]
          /\ UNCHANGED faults
       \/ /\ CanFault
          /\ faults' = faults + 1
          /\ job' = [job EXCEPT ![e] = NoJob]
          /\ pc' = [pc EXCEPT ![e] = "raised"]
          /\ exc' = [exc EXCEPT ![e] = "store_error:get"]
    /\ UNCHANGED <<store, progress, via, retries, subCount, initCount, optVars, lastPct>>
    /\ UNCHANGED <<calls, userIndex, recVars, callVars>>

\* status = "processing"; started_at = now; await self._update_batch_job(batch_job)
MarkProcessing(e) ==
    /\ pc[e] = "got"
    /\ job' = [job EXCEPT ![e].status = "processing", ![e].started_at = TRUE]
    /\ \/ /\ store' = StoredFields(job'[e])
          /\ pc' = [pc EXCEPT ![e] = "marked"]
          /\ UNCHANGED <<exc, faults>>
       \/ /\ CanFault
          /\ faults' = faults + 1
          /\ pc' = [pc EXCEPT ![e] = "handler"]
          /\ exc' = [exc EXCEPT ![e] = "store_error:mark"]
          /\ UNCHANGED store
    /\ UNCHANGED <<progress, via, retries, plan, gi, conc, ts, results,
                   subCount, subm, term, caught, initCount, optVars, lastPct>>
    /\ UNCHANGED <<calls, userIndex, recVars, callVars>>

InitEntriesMutant(prog, project_ids) ==
    [p \in ProjectIds |-> IF project_ids # <<>> /\ p = Head(project_ids) THEN PendingEntry ELSE prog[p]]

\* for project_id in batch_job.project_ids: hset(..., {"status": "pending", ...})
InitEntries(prog, project_ids) ==
    [p \in ProjectIds |-> IF p \in SeqToSet(project_ids) THEN PendingEntry ELSE prog[p]]

\* BatchProgressTracker.init_batch: a pending entry for every project
InitBatch(e) ==
    /\ pc[e] = "marked"
    /\ \/ /\ progress' = InitEntries(progress, job[e].project_ids)
          /\ initCount' = initCount + 1
          /\ pc' = [pc EXCEPT ![e] = "inited"]
          /\ UNCHANGED <<exc, faults>>
       \/ /\ CanFault
          /\ faults' = faults + 1
          /\ pc' = [pc EXCEPT ![e] = "handler"]
          /\ exc' = [exc EXCEPT ![e] = "store_error:init"]
          /\ UNCHANGED <<progress, initCount>>
    /\ UNCHANGED <<store, via, retries, job, plan, gi, conc, ts, results,
                   subCount, subm, term, caught, optVars, lastPct>>
    /\ UNCHANGED <<calls, userIndex, recVars, callVars>>

\* execution_plan = await self.batch_optimizer.optimize_batch(batch_job), then
\* the head of _execute_with_resources (empty results, task_groups)
BuildPlan(e) ==
    /\ pc[e] = "inited"
    /\ \/ /\ plan' = [plan EXCEPT ![e] = OptimizeBatch(job[e])]
          /\ gi' = [gi EXCEPT ![e] = 1]
          /\ pc' = [pc EXCEPT ![e] =
                      IF GroupNames(plan'[e]) = <<>> THEN "finalize" ELSE "group_start"]
          /\ UNCHANGED <<exc, faults>>
       \/ /\ CanFault
          /\ faults' = faults + 1
          /\ pc' = [pc EXCEPT ![e] = "handler"]
          /\ exc' = [exc EXCEPT ![e] = "plan_error"]
          /\ UNCHANGED <<plan, gi>>
    /\ UNCHANGED <<store, progress, via, retries, job, conc, ts, results,
                   subCount, subm, term, caught, initCount, optVars, lastPct>>
    /\ UNCHANGED <<calls, userIndex, recVars, callVars>>

\* head of _process_task_group: concurrency from a fresh resource sample,
\* the semaphore, one coroutine per task of the group
GroupStart(e) ==
    /\ pc[e] = "group_start"
    /\ \/ /\ \E available \in ResourceSamples :
                conc' = [conc EXCEPT ![e] =
                    CalculateConcurrency(available, CurrentGroupName(e), Len(CurrentTasks(e)))]
          /\ ts' = [ts EXCEPT ![e] = [i \in 1..Len(CurrentTasks(e)) |-> NewTask]]
          /\ pc' = [pc EXCEPT ![e] = "running"]
          /\ UNCHANGED <<exc, faults>>
       \/ /\ CanFault
          /\ faults' = faults + 1
          /\ pc' = [pc EXCEPT ![e] = "handler"]
          /\ exc' = [exc EXCEPT ![e] = "resource_error"]
          /\ UNCHANGED <<conc, ts>>
    /\ UNCHANGED <<store, progress, via, retries, job, plan, gi, results,
                   subCount, subm, term, caught, initCount, optVars, lastPct>>
    /\ UNCHANGED <<calls, userIndex, recVars, callVars>>

\* ------------------------------------------------------------------------
\* _process_single_task under the group's semaphore
\* ------------------------------------------------------------------------
UpdateTaskProgressMutant(prog, project_id, status, details) ==
    [prog EXCEPT ![project_id] = [status |-> status, detail |-> ""]]

\* update_task_progress: the project's entry takes the reported status and
\* the details of this report (an entry that is missing is created)
UpdateTaskProgress(prog, project_id, status, details) ==
    [prog EXCEPT ![project_id] = [status |-> status, detail |-> details]]

taskFrame == <<store, via, retries, job, plan, gi, conc, results, exc, initCount, optVars, lastPct,
               userIndex, recVars, callVars>>

\* the call submit_priority_task(task_name=..., args=..., kwargs=...,
\* priority=batch_job.priority.value, queue=...) of _process_single_task
SubmitCall(batch_job, task_config) ==
    [task_name |-> task_config.task_name, args |-> task_config.project_id,
     queue |-> task_config.queue, priority |-> batch_job.priority]

\* the status _process_single_task reports once _wait_for_task has returned
StatusAfterWait(res) == "completed"

\* async with semaphore: submit_priority_task(...), then
\* update_task_progress(..., "submitted", {"task_id": task.id}).  Either
\* call may raise into the except branch of _process_single_task; the update
\* may raise before its hset or, the entry stored, in _broadcast_progress
SubmitTask(e, i) ==
    /\ pc[e] = "running"
    /\ ts[e][i].st = "gate"
    /\ Count(e, HoldsSemaphore) < conc[e]
    /\ LET task_config == CurrentTasks(e)[i]
           submitted == /\ subCount' = [subCount EXCEPT ![TaskKey(task_config)] = @ + 1]
                        /\ subm' = [subm EXCEPT ![e] = @ \cup {TaskKey(task_config)}]
                        /\ calls' = calls \cup {SubmitCall(job[e], task_config)}
           raised(error) == /\ CanFault
                            /\ faults' = faults + 1
                            /\ ts' = [ts EXCEPT ![e][i].st = "caught", ![e][i].err = error]
                            /\ caught' = [caught EXCEPT ![e] = @ \cup {TaskKey(task_config)}]
           stored == progress' = UpdateTaskProgress(progress, task_config.project_id,
                                                    "submitted", "task_id")
       IN  \/ /\ submitted
              /\ stored
              /\ ts' = [ts EXCEPT ![e][i].st = "waiting"]
              /\ UNCHANGED <<faults, caught>>
           \/ /\ raised("submit_error")
              /\ UNCHANGED <<subCount, subm, calls, progress>>
           \/ /\ submitted
              /\ raised("store_error")
              /\ UNCHANGED progress
           \/ /\ submitted
              /\ stored
              /\ raised("broadcast_error")
    /\ UNCHANGED <<pc, term>>
    /\ UNCHANGED taskFrame

\* _wait_for_task returns because the handle is ready (an unsuccessful handle
\* is returned as {"status": "failed", ...}, not raised), then
\* update_task_progress(..., "completed", result) and
\* return {"status": "success", ...}
TaskReturns(e, i) ==
    /\ pc[e] = "running"
    /\ ts[e][i].st = "waiting"
    /\ \E successful \in BOOLEAN :
          LET task_config == CurrentTasks(e)[i]
              res == IF successful THEN "success" ELSE "failed"
              raised(error) == /\ CanFault
                               /\ faults' = faults + 1
                               /\ ts' = [ts EXCEPT ![e][i].st = "caught", ![e][i].err = error]
                               /\ caught' = [caught EXCEPT ![e] = @ \cup {TaskKey(task_config)}]
                               /\ UNCHANGED term
              stored == progress' = UpdateTaskProgress(progress, task_config.project_id,
                                                       StatusAfterWait(res), res)
          IN  \/ /\ stored
                 /\ ts' = [ts EXCEPT ![e][i].st = "ret_success", ![e][i].res = res]
                 /\ term' = [term EXCEPT ![e] = @ \cup {TaskKey(task_config)}]
                 /\ UNCHANGED <<faults, caught>>
              \/ /\ raised("store_error")
                 /\ UNCHANGED progress
              \/ /\ stored
                 /\ raised("broadcast_error")
    /\ UNCHANGED <<pc, subCount, subm, calls>>
    /\ UNCHANGED taskFrame

\* _wait_for_task: raise TimeoutError
WaitTimesOut(e, i) ==
    /\ pc[e] = "running"
    /\ ts[e][i].st = "waiting"
    /\ ts' = [ts EXCEPT ![e][i].st = "caught", ![e][i].err = "timeout"]
    /\ caught' = [caught EXCEPT ![e] = @ \cup {TaskKey(CurrentTasks(e)[i])}]
    /\ UNCHANGED <<pc, progress, subCount, subm, calls, term, faults>>
    /\ UNCHANGED taskFrame

\* except Exception: update_task_progress(..., "failed", {"error": str(e)});
\* return {"status": "failed", ...}.  An error of this update leaves the
\* coroutine with an exception
MarkFailed(e, i) ==
    /\ pc[e] = "running"
    /\ ts[e][i].st = "caught"
    /\ LET task_config == CurrentTasks(e)[i]
           raised(error) == /\ CanFault
                            /\ faults' = faults + 1
                            /\ ts' = [ts EXCEPT ![e][i].st = "exc", ![e][i].err = error]
           stored == progress' = UpdateTaskProgress(progress, task_config.project_id,
                                                    "failed", ts[e][i].err)
       IN  \/ /\ stored
              /\ ts' = [ts EXCEPT ![e][i].st = "ret_failed"]
              /\ UNCHANGED faults
           \/ /\ raised("store_error")
              /\ UNCHANGED progress
           \/ /\ stored
              /\ raised("broadcast_error")
    /\ term' = [term EXCEPT ![e] = @ \cup {TaskKey(CurrentTasks(e)[i])}]
    /\ UNCHANGED <<pc, subCount, subm, calls, caught>>
    /\ UNCHANGED taskFrame

\* ------------------------------------------------------------------------
\* _process_task_group: gather and categorisation
\* ------------------------------------------------------------------------
GatherPropagates(coros) == \E i \in 1..Len(coros) : coros[i].st = "exc"

\* asyncio.gather(..., return_exceptions=True): an exception of a coroutine
\* is returned in its slot, never raised out of gather
GatherRaises(coros) == FALSE

\* the entry one gathered result contributes to the group's results
ResultEntry(task, coro) ==
    IF coro.st = "exc"
    THEN [list |-> "failed", status |-> "", project_id |-> 0, task |-> task.project_id,
          type |-> task.type, result |-> "", error |-> coro.err]
    ELSE IF coro.st = "ret_success"
    THEN [list |-> "successful", status |-> "success", project_id |-> task.project_id,
          task |-> 0, type |-> task.type, result |-> coro.res, error |-> ""]
    ELSE [list |-> "failed", status |-> "failed", project_id |-> task.project_id,
          task |-> 0, type |-> task.type, result |-> "", error |-> coro.err]

RECURSIVE Categorize(_, _, _, _)
Categorize(tasks, coros, i, list) ==
    IF i > Len(tasks) THEN <<>>
    ELSE LET entry == ResultEntry(tasks[i], coros[i]) IN
         (IF entry.list = list THEN <<entry>> ELSE <<>>) \o Categorize(tasks, coros, i + 1, list)

\* results[...].extend(group_results[...]) of _execute_with_resources
ExtendResults(res, tasks, coros) ==
    [res EXCEPT !.successful = @ \o Categorize(tasks, coros, 1, "successful"),
                !.failed = @ \o Categorize(tasks, coros, 1, "failed"),
                !.skipped = @ \o Categorize(tasks, coros, 1, "skipped")]

\* the group's gather has returned: categorise, then the next group or the
\* end of _execute_with_resources
GroupDone(e) ==
    /\ pc[e] = "running"
    /\ \A i \in 1..Len(ts[e]) : ts[e][i].st \in Terminal
    /\ IF GatherRaises(ts[e])
       THEN /\ pc' = [pc EXCEPT ![e] = "handler"]
            /\ exc' = [exc EXCEPT ![e] = "task_error"]
            /\ UNCHANGED <<results, gi>>
       ELSE /\ results' = [results EXCEPT ![e] = ExtendResults(@, CurrentTasks(e), ts[e])]
            /\ gi' = [gi EXCEPT ![e] = @ + 1]
            /\ pc' = [pc EXCEPT ![e] =
                        IF gi[e] < Len(GroupNames(plan[e])) THEN "group_start" ELSE "finalize"]
            /\ UNCHANGED exc
    /\ ts' = [ts EXCEPT ![e] = <<>>]
    /\ UNCHANGED <<store, progress, via, retries, job, plan, conc,
                   subCount, subm, term, caught, initCount, faults, optVars, lastPct>>
    /\ UNCHANGED <<calls, userIndex, recVars, callVars>>

\* ------------------------------------------------------------------------
\* execute_batch: completion and the except branch
\* ------------------------------------------------------------------------
FinalStatusMutant(res) == IF res.failed # <<>> THEN "failed" ELSE "completed"

\* the status execute_batch gives a batch whose groups have all been processed
FinalStatus(res) == "completed"

\* status = "completed"; completed_at; progress = 100; results;
\* _update_batch_job; return results (the locals end with the call)
Finalize(e) ==
    /\ pc[e] = "finalize"
    /\ LET batch_job == [job[e] EXCEPT !.status = FinalStatus(results[e]), !.completed_at = TRUE,
                                      !.progress = 100, !.results = results[e]]
       IN  \/ /\ store' = StoredFields(batch_job)
              /\ pc' = [pc EXCEPT ![e] = "done"]
              /\ job' = [job EXCEPT ![e] = NoJob]
              /\ plan' = [plan EXCEPT ![e] = <<>>]
              /\ gi' = [gi EXCEPT ![e] = 0]
              /\ conc' = [conc EXCEPT ![e] = 0]
              /\ results' = [results EXCEPT ![e] = EmptyResults]
              /\ UNCHANGED <<exc, faults>>
           \/ /\ CanFault
              /\ faults' = faults + 1
              /\ job' = [job EXCEPT ![e] = batch_job]
              /\ pc' = [pc EXCEPT ![e] = "handler"]
              /\ exc' = [exc EXCEPT ![e] = "store_error:final"]
              /\ UNCHANGED <<store, plan, gi, conc, results>>
    /\ UNCHANGED <<progress, via, retries, ts, subCount, subm, term, caught,
                   initCount, optVars, lastPct>>
    /\ UNCHANGED <<calls, userIndex, recVars, callVars>>

\* batch_job.status = "failed"; batch_job.results["error"] = str(e)
FailureRecord(batch_job, error) ==
    [batch_job EXCEPT !.status = "failed", !.results.error = error]

\* except Exception as e: status = "failed"; results["error"] = str(e);
\* await self._update_batch_job(batch_job); raise.  The store may still be
\* failing: then the write's own exception leaves execute_batch
HandleFailure(e) ==
    /\ pc[e] = "handler"
    /\ LET batch_job == FailureRecord(job[e], exc[e])
       IN  \/ /\ store' = StoredFields(batch_job)
              /\ UNCHANGED exc
           \/ /\ exc' = [exc EXCEPT ![e] = "store_error:handler"]
              /\ UNCHANGED store
    /\ pc' = [pc EXCEPT ![e] = "raised"]
    /\ job' = [job EXCEPT ![e] = NoJob]
    /\ plan' = [plan EXCEPT ![e] = <<>>]
    /\ gi' = [gi EXCEPT ![e] = 0]
    /\ conc' = [conc EXCEPT ![e] = 0]
    /\ ts' = [ts EXCEPT ![e] = <<>>]
    /\ results' = [results EXCEPT ![e] = EmptyResults]
    /\ UNCHANGED <<progress, via, retries, subCount, subm, term, caught,
                   initCount, faults, optVars, lastPct>>
    /\ UNCHANGED <<calls, userIndex, recVars, callVars>>

\* ------------------------------------------------------------------------
\* optimize_batch_execution_task: read, compute, write the whole record back
\* ------------------------------------------------------------------------
CalculateOptimalSettingsMutant(total_projects, has_target, hours) ==
    [parallel_limit |-> 3, video_quality |-> "medium", optimization_strategy |-> "balanced"]

\* BatchOptimizer.calculate_optimal_settings
CalculateOptimalSettings(total_projects, has_target, hours) ==
    LET byCount == IF total_projects < 10
                   THEN [parallel_limit |-> 5, video_quality |-> "high"]
                   ELSE IF total_projects > 30
                   THEN [parallel_limit |-> 2, video_quality |-> "medium"]
                   ELSE [parallel_limit |-> 3, video_quality |-> "medium"]
    IN  IF has_target /\ hours < 1
        THEN [parallel_limit |-> 10, video_quality |-> byCount.video_quality,
              optimization_strategy |-> "speed"]
        ELSE IF has_target /\ hours > 6
        THEN [parallel_limit |-> 1, video_quality |-> byCount.video_quality,
              optimization_strategy |-> "cost"]
        ELSE [parallel_limit |-> byCount.parallel_limit, video_quality |-> byCount.video_quality,
              optimization_strategy |-> "balanced"]

\* batch_job = _get_batch_job(batch_id); raise if not found
OptRead ==
    /\ optpc = "idle"
    /\ IF store.status = "none"
       THEN /\ optpc' = "raised"
            /\ UNCHANGED optJob
       ELSE /\ optpc' = "read"
            /\ optJob' = LoadedJob(store)
    /\ UNCHANGED <<store, progress, execVars, subCount, initCount, faults, lastPct>>
    /\ UNCHANGED <<calls, userIndex, recVars, callVars>>

\* metadata.update(optimal_settings); parallel_limit = ...; _update_batch_job
OptWrite ==
    /\ optpc = "read"
    /\ LET optimal_settings == CalculateOptimalSettings(Len(optJob.project_ids), TRUE, 2) IN
          optJob' = [optJob EXCEPT !.metadata = optimal_settings,
                                   !.parallel_limit = optimal_settings.parallel_limit]
    /\ store' = StoredFields(optJob')
    /\ optpc' = "done"
    /\ UNCHANGED <<progress, execVars, subCount, initCount, faults, lastPct>>
    /\ UNCHANGED <<calls, userIndex, recVars, callVars>>

\* ------------------------------------------------------------------------
\* BatchProgressTracker.get_batch_progress
\* ------------------------------------------------------------------------
ProgressCount(prog, statuses) == Cardinality({p \in ProjectIds : prog[p].status \in statuses})

\* (completed / total * 100) if total > 0 else 0, kept as a whole number
ProgressPercentage(prog) ==
    LET completed == ProgressCount(prog, {"completed"})
        failed == ProgressCount(prog, {"failed"})
        pending == ProgressCount(prog, {"pending", "submitted"})
        total == completed + failed + pending
    IN  IF total > 0 THEN (completed * 100) \div total ELSE 0

\* the dict get_batch_progress returns: every status other than completed
\* and failed counts as pending
BatchProgressReport(prog) ==
    LET completed == ProgressCount(prog, {"completed"})
        failed == ProgressCount(prog, {"failed"})
        pending == ProgressCount(prog, {"pending", "submitted"})
    IN  [total |-> completed + failed + pending, completed |-> completed, failed |-> failed,
         pending |-> pending, progress_percentage |-> ProgressPercentage(prog)]

GetBatchProgress ==
    /\ lastPct' = ProgressPercentage(progress)
    /\ UNCHANGED <<store, progress, execVars, subCount, initCount, faults, optVars>>
    /\ UNCHANGED <<calls, userIndex, recVars, callVars>>

\* ------------------------------------------------------------------------
\* create_batch with its validation
\* ------------------------------------------------------------------------
RequestIds == 1..MaxRequestId

\* what the projects table holds for a requested id: no row of this user in
\* status DRAFT or COMPLETED, a row without script, a row with script and no
\* audio file, a row with both
ProjectKinds == {"missing", "no_script", "no_audio", "ready"}

KindOf(db, project_id) == IF project_id \in DOMAIN db THEN db[project_id] ELSE "ready"

RECURSIVE Ascending(_)
Ascending(ids) ==
    IF ids = {} THEN <<>>
    ELSE LET least == CHOOSE x \in ids : \A y \in ids : x <= y
         IN  <<least>> \o Ascending(ids \ {least})

\* _validate_projects: the rows the IN query returns (each row once, whatever
\* the list repeats), filtered by
\*   project.script and (settings.get("skip_tts") or project.audio_file_path)
\* where settings is the application Settings object of config.py, which
\* defines no get: the lookup raises AttributeError for a row with a script
\* unless the object has been given one, in which case skip_tts is unset.
\* Both outcomes of the lookup are kept.
ValidateProjects(project_ids, db, lookup) ==
    LET rows == {id \in SeqToSet(project_ids) : KindOf(db, id) # "missing"}
        with_script == {id \in rows : KindOf(db, id) \in {"no_audio", "ready"}}
    IN  IF with_script # {} /\ lookup = "raises"
        THEN [raised |-> TRUE, valid_ids |-> <<>>]
        ELSE [raised |-> FALSE,
              valid_ids |-> Ascending({id \in rows : KindOf(db, id) = "ready"})]

CreateBatchErrorMutant(project_ids, valid_project_ids) ==
    IF Len(project_ids) > max_projects_per_batch THEN "size_limit" ELSE ""

\* the two checks of create_batch: "" when the batch is accepted
CreateBatchError(project_ids, valid_project_ids) ==
    IF Len(project_ids) > max_projects_per_batch THEN "size_limit"
    ELSE IF valid_project_ids = <<>> THEN "no_valid_projects"
    ELSE ""

\* BatchJob(batch_id=..., project_ids=valid_project_ids, settings=settings,
\* priority=priority or NORMAL, metadata=metadata or {}) as _store_batch_job
\* writes it
NewBatchRecord(valid_project_ids, settings, priority, metadata) ==
    [status |-> "pending", progress |-> 0, results |-> EmptyResults,
     project_ids |-> valid_project_ids, settings |-> settings,
     priority |-> priority, metadata |-> metadata]

\* create_batch(user_id, project_ids, settings) against the table db
CreateBatchCall ==
    /\ create.state = "called"
    /\ store.status = "none"
    /\ LET checked == IF Len(create.project_ids) > max_projects_per_batch
                      THEN [raised |-> FALSE, valid_ids |-> <<>>]
                      ELSE ValidateProjects(create.project_ids, create.db, create.lookup)
           error == IF checked.raised THEN "attribute_error"
                    ELSE CreateBatchError(create.project_ids, checked.valid_ids)
       IN  IF error # ""
           THEN /\ create' = [create EXCEPT !.state = "raised", !.error = error]
                /\ UNCHANGED <<store, userIndex>>
           ELSE /\ store' = NewBatchRecord(checked.valid_ids, NoSettings, PRIORITY_NORMAL, NoMetadata)
                /\ userIndex' = TRUE
                /\ create' = [create EXCEPT !.state = "returned"]
    /\ UNCHANGED <<progress, execVars, subCount, initCount, faults, optVars, lastPct,
                   calls, recVars, ccall, pcall, ocall, gcall, track>>

\* ------------------------------------------------------------------------
\* Recovery: recover_failed_batch_task and BatchRecoveryService
\* ------------------------------------------------------------------------
\* [item["project_id"] for item in batch_job.results.get("failed", [])]; an
\* entry made from an exception is {"task": ..., "error": ...} and has no
\* project_id key (project_id 0 here): the comprehension raises KeyError
HasProjectId(item) == item.project_id # 0

FailedProjects(batch_job) ==
    [j \in 1..Len(batch_job.results.failed) |-> batch_job.results.failed[j].project_id]

\* metadata={"original_batch": batch_id, "recovery_attempt": 1, ...}
RecoveryMetadata(batch_id, retry_failed_only) ==
    [original_batch |-> batch_id, recovery_attempt |-> 1, retry_failed_only |-> retry_failed_only]

\* recover_failed_batch_task up to "creating_recovery_batch": no check of the
\* stored status is made
RecoverTaskStart(retry_failed_only) ==
    /\ recpc = "idle"
    /\ LET batch_job == LoadedJob(store)
           called == [NoRec EXCEPT !.kind = "task", !.retry_failed_only = retry_failed_only,
                                   !.failed_at_call = store.results.failed,
                                   !.ids_at_call = store.project_ids,
                                   !.settings = store.settings]
       IN  IF ~Found(store)
           THEN /\ recpc' = "raised"
                /\ rec' = [called EXCEPT !.error = "not_found"]
           ELSE IF \E j \in 1..Len(batch_job.results.failed) :
                      ~HasProjectId(batch_job.results.failed[j])
           THEN /\ recpc' = "raised"
                /\ rec' = [called EXCEPT !.error = "key_error"]
           ELSE IF FailedProjects(batch_job) = <<>> /\ retry_failed_only
           THEN /\ recpc' = "no_failures"
                /\ rec' = called
           ELSE /\ recpc' = "creating"
                /\ rec' = [called EXCEPT !.project_ids =
                              IF retry_failed_only THEN FailedProjects(batch_job)
                              ELSE batch_job.project_ids]
    /\ UNCHANGED <<store, userIndex, progress, execVars, subCount, initCount, faults, optVars,
                   lastPct, calls, recStore, callVars>>

\* create_batch(user_id, recovery_projects, settings, HIGH, metadata) of the
\* task, against the projects table as it is now
RecoverCreate ==
    /\ recpc = "creating"
    /\ \E db \in [SeqToSet(rec.ids_at_call) -> {"missing", "ready"}], lookup \in {"raises", "falsy"} :
          LET checked == IF Len(rec.project_ids) > max_projects_per_batch
                         THEN [raised |-> FALSE, valid_ids |-> <<>>]
                         ELSE ValidateProjects(rec.project_ids, db, lookup)
              error == IF checked.raised THEN "attribute_error"
                       ELSE CreateBatchError(rec.project_ids, checked.valid_ids)
          IN  IF error # ""
              THEN /\ recpc' = "raised"
                   /\ rec' = [rec EXCEPT !.error = error, !.db = db]
                   /\ UNCHANGED recStore
              ELSE /\ recpc' = "executing"
                   /\ rec' = [rec EXCEPT !.db = db]
                   /\ recStore' = [batch_id |-> RecoveryBatchId] @@
                                  NewBatchRecord(checked.valid_ids, rec.settings, PRIORITY_HIGH,
                                                 RecoveryMetadata(OriginalBatchId, rec.retry_failed_only))
    /\ UNCHANGED <<store, userIndex, progress, execVars, subCount, initCount, faults, optVars,
                   lastPct, calls, callVars>>

\* execute_batch(recovery_batch.batch_id): the run on the recovery batch is
\* carried by the writes it makes to that batch's record
RecoverExecute ==
    /\ \/ /\ recpc = "executing"
          /\ recStore' = [recStore EXCEPT !.status = "processing"]
          /\ recpc' = "running"
          /\ UNCHANGED rec
       \/ /\ recpc = "running"
          /\ recStore' = [recStore EXCEPT !.status = FinalStatus(recStore.results), !.progress = 100]
          /\ recpc' = "done"
          /\ UNCHANGED rec
       \/ /\ recpc = "running"
          /\ recStore' = [recStore EXCEPT !.status = "failed", !.results.error = "execute_error"]
          /\ recpc' = "raised"
          /\ rec' = [rec EXCEPT !.error = "execute_error"]
    /\ UNCHANGED <<store, userIndex, progress, execVars, subCount, initCount, faults, optVars,
                   lastPct, calls, callVars>>

\* BatchRecoveryService.recover_failed_batch, the coroutine the retry endpoint
\* schedules: its body is pass
RecoverService(retry_failed_only) ==
    /\ recpc = "idle"
    /\ recpc' = "done"
    /\ rec' = [NoRec EXCEPT !.kind = "service", !.retry_failed_only = retry_failed_only,
                            !.failed_at_call = store.results.failed,
                            !.ids_at_call = store.project_ids]
    /\ UNCHANGED <<store, userIndex, progress, execVars, subCount, initCount, faults, optVars,
                   lastPct, calls, recStore, callVars>>

\* ------------------------------------------------------------------------
\* Observed calls of _calculate_concurrency and of optimize_batch
\* ------------------------------------------------------------------------
\* resource samples for a call of _calculate_concurrency
ConcurrencySamples ==
    ResourceSamples \cup { [cpu_cores |-> 4,  memory_mb |-> 8192,  gpu_count |-> 0],
                           [cpu_cores |-> 16, memory_mb |-> 65536, gpu_count |-> 2] }

ConcurrencyInputs ==
    [state : {"called"}, available : ConcurrencySamples, task_type : TaskTypes,
     task_count : 1..MaxGroupSize, parallel_limit : 1..MaxParallelLimit, result : {0}]

\* concurrency = await self._calculate_concurrency(group_name, len(tasks)) for
\* a group of the batch whose parallel_limit is ccall.parallel_limit: the
\* batch is not among the arguments
CalculateConcurrencyCall ==
    /\ ccall.state = "called"
    /\ ccall' = [ccall EXCEPT !.state = "returned",
                              !.result = CalculateConcurrency(ccall.available, ccall.task_type,
                                                              ccall.task_count)]
    /\ UNCHANGED <<store, userIndex, progress, execVars, subCount, initCount, faults, optVars,
                   lastPct, calls, recVars, create, pcall, ocall, gcall, track>>

PlanSettings ==
    [generate_content : BOOLEAN, generate_tts : BOOLEAN,
     video_quality : {"medium", "high", "ultra"}, advanced_video : BOOLEAN]

PlanInputs ==
    [state : {"called"}, n : 1..MaxPlanProjects, settings : PlanSettings,
     strategy : AllStrategies, plan : {<<>>}]

\* execution_plan = await self.batch_optimizer.optimize_batch(batch_job) for a
\* batch of projects 1..n
OptimizeBatchCall ==
    /\ pcall.state = "called"
    /\ LET batch_job == [project_ids |-> [i \in 1..pcall.n |-> i], settings |-> pcall.settings,
                         metadata |-> [optimization_strategy |-> pcall.strategy]]
       IN  pcall' = [pcall EXCEPT !.state = "returned", !.plan = OptimizeBatch(batch_job)]
    /\ UNCHANGED <<store, userIndex, progress, execVars, subCount, initCount, faults, optVars,
                   lastPct, calls, recVars, create, ccall, ocall, gcall, track>>

\* a call optimize_batch_settings(project_ids, target_completion_time): rows
\* is the number of rows the IN query of _analyze_projects returns;
\* has_target is the truth value of the timedelta (None and timedelta(0) are
\* falsy); hours stands for total_seconds() / 3600, 0 for a positive target
\* under one hour and k for a target of k hours
SettingsInputs ==
    [state : {"called"}, rows : 0..MaxAnalysedProjects, has_target : BOOLEAN,
     hours : 0..MaxTargetHours, settings : {NoMetadata}, error : {""}]

\* _analyze_projects divides by len(projects) for average_duration
AnalyzeProjectsRaises(rows) == rows = 0

\* optimize_batch_settings: _analyze_projects, get_resource_forecast (not
\* read by the computation), calculate_optimal_settings
OptimizeBatchSettingsCall ==
    /\ ocall.state = "called"
    /\ IF AnalyzeProjectsRaises(ocall.rows)
       THEN ocall' = [ocall EXCEPT !.state = "raised", !.error = "zero_division"]
       ELSE ocall' = [ocall EXCEPT !.state = "returned",
                                   !.settings = CalculateOptimalSettings(ocall.rows, ocall.has_target,
                                                                         ocall.hours)]
    /\ UNCHANGED <<store, userIndex, progress, execVars, subCount, initCount, faults, optVars,
                   lastPct, calls, recVars, create, ccall, pcall, gcall, track>>

\* ------------------------------------------------------------------------
\* _group_by_dependencies of the workflow orchestration task
\* ------------------------------------------------------------------------
\* task.get("dependencies", [])
Dependencies(task) == IF "dependencies" \in DOMAIN task THEN task.dependencies ELSE <<>>

\* [task["project_id"] for level in levels for task in level]
CompletedIds(levels) ==
    UNION {{levels[l][i].project_id : i \in 1..Len(levels[l])} : l \in 1..Len(levels)}

\* all(dep in completed_ids for dep in deps)
Resolved(task, completed_ids) ==
    \A k \in 1..Len(Dependencies(task)) : Dependencies(task)[k] \in completed_ids

\* the while loop: one level per pass out of the tasks still remaining, and
\* break on a pass that resolves nothing
RECURSIVE GroupLoop(_, _)
GroupLoop(levels, remaining) ==
    IF remaining = <<>> THEN levels
    ELSE LET completed_ids == CompletedIds(levels)
             current_level == SelectSeq(remaining, LAMBDA task : Resolved(task, completed_ids))
         IN  IF current_level # <<>>
             THEN GroupLoop(Append(levels, current_level),
                            SelectSeq(remaining, LAMBDA task : ~Resolved(task, completed_ids)))
             ELSE levels

GroupByDependencies(execution_plan) == GroupLoop(<<>>, execution_plan)

\* plans to level: the plans optimize_batch builds, and plans written by hand
\* whose task i carries a "dependencies" list of at most one project id
HandTask(project_id, dependencies) ==
    [project_id |-> project_id, type |-> "video", task_name |-> "generate_video",
     queue |-> "video", priority |-> 3, timeout |-> 900, depends_on |-> <<>>,
     dependencies |-> dependencies]

HandPlans ==
    UNION {{[i \in 1..len |-> HandTask(i, deps[i])] :
               deps \in [1..len -> {<<>>} \cup {<<d>> : d \in 1..MaxHandTasks}]} :
           len \in 1..MaxHandTasks}

OptimizerPlans ==
    {OptimizeBatch([project_ids |-> [i \in 1..n |-> i], settings |-> settings,
                    metadata |-> [optimization_strategy |-> strategy]]) :
        n \in 1..MaxLevelProjects, settings \in PlanSettings, strategy \in AllStrategies}

GroupInputs == [state : {"called"}, execution_plan : OptimizerPlans \cup HandPlans, levels : {<<>>}]

\* dependency_levels = _group_by_dependencies(execution_plan)
GroupByDependenciesCall ==
    /\ gcall.state = "called"
    /\ gcall' = [gcall EXCEPT !.state = "returned",
                              !.levels = GroupByDependencies(gcall.execution_plan)]
    /\ UNCHANGED <<store, userIndex, progress, execVars, subCount, initCount, faults, optVars,
                   lastPct, calls, recVars, create, ccall, pcall, ocall, track>>

\* ------------------------------------------------------------------------
\* update_task_progress: the tasks map of a project's entry
\* ------------------------------------------------------------------------
\* the chain of every project in this scenario; a task's id stands for the
\* Celery id of its submission
TrackTypes == <<"content", "tts", "video">>

TrackKeys == SeqToSet(TrackTypes) \cup {"unknown"}

\* the details of the three reports of _process_single_task:
\* {"task_id": task.id}, the dict _wait_for_task returned (keys status and
\* result), and {"error": str(e)}
SubmittedDetails(task_id) == [has_task_id |-> TRUE, task_id |-> task_id]
ResultDetails == [has_task_id |-> FALSE, task_id |-> ""]
ErrorDetails == [has_task_id |-> FALSE, task_id |-> ""]

\* details.get("task_id", "unknown")
TaskEntryKey(details) == IF details.has_task_id THEN details.task_id ELSE "unknown"

\* progress_data["status"] = status;
\* progress_data["tasks"][details.get("task_id", "unknown")] = {"status": status, ...}
UpsertTaskEntry(progress_data, status, details) ==
    [status |-> status, tasks |-> [progress_data.tasks EXCEPT ![TaskEntryKey(details)] = status]]

\* the entry init_batch writes: "tasks": {}
PendingTasksEntry == [status |-> "pending", tasks |-> [k \in TrackKeys |-> "absent"]]

\* the group of a type starts when the group before it has ended for every project
GroupOpen(j) ==
    IF j = 1 THEN TRUE
    ELSE \A p \in ProjectIds : track.reported[p][TrackTypes[j - 1]] \in {"completed", "failed"}

\* update_task_progress(batch_id, project_id, "submitted", {"task_id": task.id})
TrackSubmitted(project_id, j) ==
    /\ track.entries # <<>>
    /\ GroupOpen(j)
    /\ track.reported[project_id][TrackTypes[j]] = "new"
    /\ track' = [entries |-> [track.entries EXCEPT ![project_id] =
                                 UpsertTaskEntry(@, "submitted", SubmittedDetails(TrackTypes[j]))],
                 reported |-> [track.reported EXCEPT ![project_id][TrackTypes[j]] = "submitted"]]
    /\ UNCHANGED <<store, userIndex, progress, execVars, subCount, initCount, faults, optVars,
                   lastPct, calls, recVars, create, ccall, pcall, ocall, gcall>>

\* update_task_progress(batch_id, project_id, "completed", result)
TrackCompleted(project_id, j) ==
    /\ track.entries # <<>>
    /\ track.reported[project_id][TrackTypes[j]] = "submitted"
    /\ track' = [entries |-> [track.entries EXCEPT ![project_id] =
                                 UpsertTaskEntry(@, "completed", ResultDetails)],
                 reported |-> [track.reported EXCEPT ![project_id][TrackTypes[j]] = "completed"]]
    /\ UNCHANGED <<store, userIndex, progress, execVars, subCount, initCount, faults, optVars,
                   lastPct, calls, recVars, create, ccall, pcall, ocall, gcall>>

\* update_task_progress(batch_id, project_id, "failed", {"error": str(e)})
TrackFailed(project_id, j) ==
    /\ track.entries # <<>>
    /\ track.reported[project_id][TrackTypes[j]] = "submitted"
    /\ track' = [entries |-> [track.entries EXCEPT ![project_id] =
                                 UpsertTaskEntry(@, "failed", ErrorDetails)],
                 reported |-> [track.reported EXCEPT ![project_id][TrackTypes[j]] = "failed"]]
    /\ UNCHANGED <<store, userIndex, progress, execVars, subCount, initCount, faults, optVars,
                   lastPct, calls, recVars, create, ccall, pcall, ocall, gcall>>

\* ------------------------------------------------------------------------
\* Specification
\* ------------------------------------------------------------------------
\* the steps of one execute_batch invocation
ExecuteBatch(e) ==
    \/ GetBatchJob(e)
    \/ MarkProcessing(e)
    \/ InitBatch(e)
    \/ BuildPlan(e)
    \/ GroupStart(e)
    \/ \E i \in 1..Len(ts[e]) : SubmitTask(e, i)
    \/ \E i \in 1..Len(ts[e]) : TaskReturns(e, i)
    \/ \E i \in 1..Len(ts[e]) : WaitTimesOut(e, i)
    \/ \E i \in 1..Len(ts[e]) : MarkFailed(e, i)
    \/ GroupDone(e)
    \/ Finalize(e)
    \/ HandleFailure(e)

\* One invocation of execute_batch on a batch of up to MaxProjects projects
\* and MaxPlanLen tasks, under every settings choice
Next ==
    \/ \E n \in 1..MaxProjects, settings \in SettingsChoices, strategy \in StrategyChoices :
          CreateBatch(n, settings, strategy, PRIORITY_NORMAL)
    \/ StartApi(1)
    \/ ExecuteBatch(1)

Spec == Init /\ [][Next]_vars

\* The same under the scheduling of the event loop and the backend: a step of
\* the invocation that stays possible is eventually taken (a coroutine that
\* can run does run; a submitted task becomes ready or its wait times out),
\* and the background task the API scheduled is started
SpecLive == Spec /\ WF_vars(StartApi(1)) /\ WF_vars(ExecuteBatch(1))

\* The same, with a client polling get_batch_progress
NextProgress ==
    \/ Next
    \/ GetBatchProgress

SpecProgress == Init /\ [][NextProgress]_vars

\* the state right after create_batch has stored a batch of n projects
InitAfterCreate(n, settings) ==
    /\ store = [status |-> "pending", progress |-> 0, results |-> EmptyResults,
                project_ids |-> [i \in 1..n |-> i], settings |-> settings,
                priority |-> PRIORITY_NORMAL, metadata |-> NoMetadata]
    /\ userIndex = TRUE
    /\ progress = [p \in ProjectIds |-> NoEntry]
    /\ ExecInit
    /\ RecInit
    /\ CallInit

InitStore == \E settings \in StoreSettingsChoices : InitAfterCreate(1, settings)

\* Invocations of execute_batch that overlap or follow each other on one
\* stored batch (API starts, process_batch_task and its retries), together
\* with optimize_batch_execution_task
NextStore ==
    \/ \E e \in Execs : StartApi(e)
    \/ \E e \in Execs : StartCelery(e)
    \/ \E e \in Execs : Retry(e)
    \/ \E e \in Execs : ExecuteBatch(e)
    \/ OptRead
    \/ OptWrite

SpecStore == InitStore /\ [][NextStore]_vars

\* One invocation of execute_batch on a stored batch of GateProjects projects
\* whose plan is a single group of render tasks
InitGate == \E settings \in StoreSettingsChoices : InitAfterCreate(GateProjects, settings)

NextGate ==
    \/ StartApi(1)
    \/ ExecuteBatch(1)

SpecGate == InitGate /\ [][NextGate]_vars

\* process_batch_task (with its retries) on a batch id that may not be stored
\* yet, for one project under every settings choice and strategy
NextCelery ==
    \/ \E settings \in SettingsChoices, strategy \in AllStrategies :
          CreateBatch(1, settings, strategy, PRIORITY_NORMAL)
    \/ StartCelery(1)
    \/ Retry(1)
    \/ ExecuteBatch(1)

SpecCelery == Init /\ [][NextCelery]_vars

\* Recovery of a stored batch of two projects (content and render steps), at
\* any moment of its execution
RecoverySettings ==
    { [generate_content |-> TRUE, generate_tts |-> FALSE, video_quality |-> "medium", advanced_video |-> FALSE] }

InitRecovery == \E settings \in RecoverySettings : InitAfterCreate(2, settings)

NextRecovery ==
    \/ StartApi(1)
    \/ ExecuteBatch(1)
    \/ \E retry_failed_only \in BOOLEAN : RecoverTaskStart(retry_failed_only)
    \/ RecoverCreate
    \/ RecoverExecute
    \/ \E retry_failed_only \in BOOLEAN : RecoverService(retry_failed_only)

SpecRecovery == InitRecovery /\ [][NextRecovery]_vars

\* Calls of create_batch: every list of up to MaxRequestLen ids, a list of
\* exactly max_projects_per_batch ids and one of one more, against every
\* content of the projects table for the ids 1..MaxRequestId
RequestLists ==
    UNION {[1..k -> RequestIds] : k \in 0..MaxRequestLen}
        \cup {[i \in 1..max_projects_per_batch |-> i], [i \in 1..(max_projects_per_batch + 1) |-> i]}

CreateInputs ==
    [state : {"called"}, project_ids : RequestLists, db : [RequestIds -> ProjectKinds],
     lookup : {"raises", "falsy"}, error : {""}]

InitCreate ==
    /\ store = NoRecord
    /\ userIndex = FALSE
    /\ progress = [p \in ProjectIds |-> NoEntry]
    /\ ExecInit
    /\ RecInit
    /\ create \in CreateInputs
    /\ ccall = NoCcall
    /\ pcall = NoPcall
    /\ ocall = NoOcall
    /\ gcall = NoGcall
    /\ track = NoTrack

SpecCreate == InitCreate /\ [][CreateBatchCall]_vars

InitConcurrency ==
    /\ store = NoRecord
    /\ userIndex = FALSE
    /\ progress = [p \in ProjectIds |-> NoEntry]
    /\ ExecInit
    /\ RecInit
    /\ create = NoCreate
    /\ ccall \in ConcurrencyInputs
    /\ pcall = NoPcall
    /\ ocall = NoOcall
    /\ gcall = NoGcall
    /\ track = NoTrack

SpecConcurrency == InitConcurrency /\ [][CalculateConcurrencyCall]_vars

InitPlan ==
    /\ store = NoRecord
    /\ userIndex = FALSE
    /\ progress = [p \in ProjectIds |-> NoEntry]
    /\ ExecInit
    /\ RecInit
    /\ create = NoCreate
    /\ ccall = NoCcall
    /\ pcall \in PlanInputs
    /\ ocall = NoOcall
    /\ gcall = NoGcall
    /\ track = NoTrack

SpecPlan == InitPlan /\ [][OptimizeBatchCall]_vars

InitSettings ==
    /\ store = NoRecord
    /\ userIndex = FALSE
    /\ progress = [p \in ProjectIds |-> NoEntry]
    /\ ExecInit
    /\ RecInit
    /\ create = NoCreate
    /\ ccall = NoCcall
    /\ pcall = NoPcall
    /\ ocall \in SettingsInputs
    /\ gcall = NoGcall
    /\ track = NoTrack

SpecSettings == InitSettings /\ [][OptimizeBatchSettingsCall]_vars

InitGroup ==
    /\ store = NoRecord
    /\ userIndex = FALSE
    /\ progress = [p \in ProjectIds |-> NoEntry]
    /\ ExecInit
    /\ RecInit
    /\ create = NoCreate
    /\ ccall = NoCcall
    /\ pcall = NoPcall
    /\ ocall = NoOcall
    /\ gcall \in GroupInputs
    /\ track = NoTrack

SpecGroup == InitGroup /\ [][GroupByDependenciesCall]_vars

\* the reports of one execution on the entries init_batch has written
InitTrack ==
    /\ store = NoRecord
    /\ userIndex = FALSE
    /\ progress = [p \in ProjectIds |-> NoEntry]
    /\ ExecInit
    /\ RecInit
    /\ create = NoCreate
    /\ ccall = NoCcall
    /\ pcall = NoPcall
    /\ ocall = NoOcall
    /\ gcall = NoGcall
    /\ track = [entries |-> [p \in ProjectIds |-> PendingTasksEntry],
                reported |-> [p \in ProjectIds |-> [t \in SeqToSet(TrackTypes) |-> "new"]]]

NextTrack ==
    \E project_id \in ProjectIds, j \in 1..Len(TrackTypes) :
        \/ TrackSubmitted(project_id, j)
        \/ TrackCompleted(project_id, j)
        \/ TrackFailed(project_id, j)

SpecTrack == InitTrack /\ [][NextTrack]_vars

\* ------------------------------------------------------------------------
\* Properties
\* ------------------------------------------------------------------------
StatusRank(status) ==
    IF status = "pending" THEN 0 ELSE IF status = "processing" THEN 1 ELSE 2

\* C1: the stored status of a batch never regresses: it never moves from
\* completed or failed back to processing or pending, nor from processing
\* back to pending.
C1_StatusNeverRegresses ==
    [][StatusRank(store'.status) >= StatusRank(store.status)]_vars

\* C2: however often execute_batch is invoked for one batch, at most one
\* invocation initialises the progress entries and each task of the batch is
\* submitted to the backend at most once.
C2_ExecutedOnce ==
    /\ initCount <= 1
    /\ \A k \in TaskKeys : subCount[k] <= 1

\* the same project's tasks that a task names in depends_on
DependencyKeys(task) == {<<task.project_id, task.depends_on[k]>> : k \in 1..Len(task.depends_on)}

\* C3: a task that has been submitted to the backend has every task it
\* depends on in a terminal state (its _process_single_task has ended).
C3_DependenciesTerminalBeforeSubmit ==
    \A e \in Execs : \A j \in 1..Len(plan[e]) :
        TaskKey(plan[e][j]) \in subm[e] => DependencyKeys(plan[e][j]) \subseteq term[e]

\* a render task of a two-project batch is in flight after both steps before
\* it ended, one of them in failure, while its sibling has not been submitted
C3_Witness ==
    /\ Len(job[1].project_ids) = 2
    /\ job[1].settings.generate_content /\ job[1].settings.generate_tts
    /\ <<1, "video">> \in subm[1]
    /\ <<2, "video">> \notin subm[1]
    /\ <<1, "tts">> \in caught[1] \cap term[1]
    /\ <<2, "tts">> \in term[1] \ caught[1]

InFlight(e) == Count(e, InFlightStates)

\* C4: while a group is processed, the number of its tasks that are
\* submitted and still awaited is at most min(resource-derived cap,
\* parallel_limit of the batch, group size), for the resource sample the
\* group's concurrency was computed from.
C4_InFlightWithinBatchLimit ==
    \A e \in Execs :
        pc[e] = "running" =>
            \E available \in ResourceSamples :
                /\ conc[e] = CalculateConcurrency(available, CurrentGroupName(e), Len(ts[e]))
                /\ InFlight(e) <= Min(Min(ResourceCap(available, CurrentGroupName(e)),
                                          job[e].parallel_limit), Len(ts[e]))

\* C5: an entry of results.successful belongs to a task whose backend
\* execution ended successfully.
C5_SuccessfulOnlyIfBackendSucceeded ==
    \A e \in Execs : \A j \in 1..Len(results[e].successful) :
        results[e].successful[j].result = "success"

\* the failed list holds an entry for the task with this key
RecordedFailed(res, key) ==
    \E j \in 1..Len(res.failed) :
        /\ res.failed[j].type = key[2]
        /\ key[1] \in {res.failed[j].project_id, res.failed[j].task}

\* C6: a failure of single tasks is never propagated out of the groups, and
\* when all groups are processed every task of the plan has been attempted
\* (submitted, or its submission raised) and every failure is in results.failed.
C6_TaskFailureIsolated ==
    \A e \in Execs :
        /\ exc[e] # "task_error"
        /\ pc[e] = "finalize" =>
              /\ \A j \in 1..Len(plan[e]) :
                    /\ TaskKey(plan[e][j]) \in term[e]
                    /\ TaskKey(plan[e][j]) \in subm[e] \cup caught[e]
              /\ \A key \in caught[e] : RecordedFailed(results[e], key)
              /\ Len(results[e].successful) + Len(results[e].failed) = Len(plan[e])

\* all groups processed after a first-level task ended with an exception of
\* its failure update, with a sibling and a later task successful
C6_Witness ==
    /\ pc[1] = "finalize"
    /\ Len(job[1].project_ids) = 2
    /\ \E j \in 1..Len(results[1].failed) :
          results[1].failed[j].status = "" /\ results[1].failed[j].type = "content"
    /\ \E j \in 1..Len(results[1].successful) : results[1].successful[j].type = "content"
    /\ \E j \in 1..Len(results[1].successful) : results[1].successful[j].type = "advanced_video"

\* C7: the progress_percentage returned by get_batch_progress never
\* decreases from one call to the next.
C7_ProgressMonotonic ==
    [][lastPct' >= lastPct]_vars

\* number of entries of a list that carry this project id
EntriesOf(list, p) == Cardinality({j \in 1..Len(list) : list[j].project_id = p})

\* C8: when the groups are processed each project of the batch is in exactly
\* one of successful, failed and skipped, exactly once.
C8_ClassifiedExactlyOnce ==
    \A e \in Execs :
        pc[e] = "finalize" =>
            \A p \in SeqToSet(job[e].project_ids) :
                EntriesOf(results[e].successful, p) + EntriesOf(results[e].failed, p)
                    + EntriesOf(results[e].skipped, p) = 1

DriverErrors ==
    {"store_error:mark", "store_error:init", "plan_error", "resource_error", "store_error:final"}

\* C9: an invocation that reaches the end of the try block stores status
\* completed whatever its tasks did, and the stored status becomes failed
\* only in the except branch of an invocation, on a driver-level error.
C9_CompletedDespiteTaskFailures ==
    [][/\ \A e \in Execs :
             (pc[e] = "finalize" /\ pc'[e] = "done") => store'.status = "completed"
       /\ (store'.status = "failed" /\ store.status # "failed") =>
             \E e \in Execs : pc[e] = "handler" /\ exc[e] \in DriverErrors]_vars

\* the call has returned and the stored batch is completed with a successful
\* and a failed task
C9_Witness ==
    /\ pc[1] = "done"
    /\ store.status = "completed"
    /\ store.results.failed # <<>>
    /\ store.results.successful # <<>>

\* C10: whenever the except branch of execute_batch ends, the batch is stored
\* failed with the error text and the same exception is re-raised; the batch
\* is not left stored as processing.
C10_FailureAlwaysStored ==
    [][\A e \in Execs :
          (pc[e] = "handler" /\ pc'[e] = "raised") =>
              /\ store'.status = "failed"
              /\ store'.results.error = exc[e]
              /\ exc'[e] = exc[e]]_vars

\* the project ids of a failed list, whichever form its entries have
FailedProjectSet(failed) ==
    {IF HasProjectId(failed[j]) THEN failed[j].project_id ELSE failed[j].task :
        j \in 1..Len(failed)}

RecoveryEnded == {"done", "no_failures", "raised"}

\* errors of a recovery that come from the projects table or from the run of
\* the recovery batch, not from the selection of the projects
RecoveryEnvironmentErrors == {"no_valid_projects", "attribute_error", "execute_error"}

\* the projects a recovery is to resubmit: the failed ones or all of them,
\* as far as the projects table still accepts them
RecoveryExpected ==
    {p \in (IF rec.retry_failed_only THEN FailedProjectSet(rec.failed_at_call)
            ELSE SeqToSet(rec.ids_at_call)) :
        rec.kind = "task" => KindOf(rec.db, p) = "ready"}

\* C11: a recovery that has ended has created a recovery batch whose
\* project_ids are exactly the failed project ids of the original batch
\* (retry_failed_only) or its full project_ids (otherwise), and has created
\* none when retry_failed_only finds the failed list empty.
C11_RecoveryResubmitsFailedProjects ==
    recpc \in RecoveryEnded =>
        IF rec.retry_failed_only /\ rec.failed_at_call = <<>>
        THEN recStore.status = "none"
        ELSE \/ rec.error \in RecoveryEnvironmentErrors
             \/ /\ recStore.status # "none"
                /\ SeqToSet(recStore.project_ids) = RecoveryExpected
                /\ Cardinality(SeqToSet(recStore.project_ids)) = Len(recStore.project_ids)

\* C12: every step of a recovery leaves the original batch's record as it is,
\* and a recovery that returns having had projects to resubmit has stored a
\* new batch under a different id with priority HIGH and metadata naming the
\* original batch and the attempt, run through execute_batch.
C12_RecoveryCreatesLinkedBatch ==
    [][recpc' # recpc =>
          /\ store' = store
          /\ (recpc' = "done" /\ ~(rec'.retry_failed_only /\ rec'.failed_at_call = <<>>)) =>
                /\ recStore'.status \in {"completed", "failed"}
                /\ recStore'.batch_id # OriginalBatchId
                /\ recStore'.priority = PRIORITY_HIGH
                /\ recStore'.metadata.original_batch = OriginalBatchId
                /\ recStore'.metadata.recovery_attempt = 1]_vars

\* the successful list holds an entry for the task with this key
RecordedSuccessful(res, key) ==
    \E j \in 1..Len(res.successful) :
        res.successful[j].project_id = key[1] /\ res.successful[j].type = key[2]

\* C13: when the wait of a task times out, the failure update sets the
\* project's progress entry to failed with a detail naming the timeout; no
\* task is submitted a second time; and when the groups are processed every
\* task of the plan has ended, each one that raised nothing being recorded
\* successful.
C13_TimeoutIsTaskFailure ==
    [][\A e \in Execs :
          /\ \A i \in 1..Len(ts[e]) :
                (/\ pc[e] = "running"
                 /\ ts[e][i] = [st |-> "caught", res |-> "", err |-> "timeout"]
                 /\ Len(ts'[e]) = Len(ts[e])
                 /\ ts'[e][i].st = "ret_failed") =>
                    progress'[CurrentTasks(e)[i].project_id] =
                        [status |-> "failed", detail |-> "timeout"]
          /\ \A k \in TaskKeys : subCount'[k] <= 1
          /\ pc'[e] = "finalize" =>
                \A j \in 1..Len(plan'[e]) :
                    /\ TaskKey(plan'[e][j]) \in term'[e]
                    /\ TaskKey(plan'[e][j]) \notin caught'[e] =>
                          RecordedSuccessful(results'[e], TaskKey(plan'[e][j]))]_vars

\* the wait of project 1's content task timed out and its entry is failed
\* with the timeout as detail, while the content task of project 2, submitted
\* once like it, has completed
C13_Witness ==
    /\ pc[1] = "running"
    /\ CurrentGroupName(1) = "content"
    /\ progress[1] = [status |-> "failed", detail |-> "timeout"]
    /\ progress[2] = [status |-> "completed", detail |-> "success"]
    /\ subCount[<<1, "content">>] = 1
    /\ subCount[<<2, "content">>] = 1

\* C14: the concurrency computed for a group equals min(R, parallel_limit of
\* the batch being executed, group size), R being the resource-derived cap,
\* and is at least 1.
C14_ConcurrencyFormula ==
    ccall.state = "returned" =>
        /\ ccall.result = Min(Min(ResourceCap(ccall.available, ccall.task_type),
                                  ccall.parallel_limit), ccall.task_count)
        /\ ccall.result >= 1

\* the call a descriptor asks for: its own name, args, queue and priority
DescriptorCall(task_config) ==
    [task_name |-> task_config.task_name, args |-> task_config.project_id,
     queue |-> task_config.queue, priority |-> task_config.priority]

\* C15: every submission the backend has received carries the name, args,
\* queue and priority of a descriptor of the stored batch's plan (priority
\* HIGH for every task under strategy speed).
C15_SubmissionCarriesDescriptor ==
    \A call \in calls :
        \E j \in 1..Len(OptimizeBatch(store)) : call = DescriptorCall(OptimizeBatch(store)[j])

\* topological level of a descriptor: 0 without dependencies, else one more
\* than the level of the same project's descriptor it depends on
RECURSIVE TaskLevel(_, _)
TaskLevel(execution_plan, task) ==
    IF task.depends_on = <<>> THEN 0
    ELSE 1 + TaskLevel(execution_plan,
                       CHOOSE d \in SeqToSet(execution_plan) :
                           d.project_id = task.project_id /\ d.type = task.depends_on[1])

LevelMembers(execution_plan, level) ==
    {j \in 1..Len(execution_plan) : TaskLevel(execution_plan, execution_plan[j]) = level}

SpeedPlanCase ==
    /\ pcall.state = "returned"
    /\ pcall.settings.generate_content
    /\ pcall.settings.generate_tts
    /\ pcall.settings.video_quality = "high"
    /\ pcall.strategy = "speed"

\* C16: for n projects requesting content, tts and video at quality high under
\* strategy speed, optimize_batch returns 3n descriptors in three dependency
\* levels of n tasks each (content, then tts, then the render step), which are
\* also the scheduler's groups in that order, and every priority is HIGH.
C16_SpeedPlanShape ==
    SpeedPlanCase =>
        LET level_types == <<"content", "tts", VideoTaskType(pcall.settings)>> IN
        /\ Len(pcall.plan) = 3 * pcall.n
        /\ \A level \in 0..2 :
              /\ Cardinality(LevelMembers(pcall.plan, level)) = pcall.n
              /\ \A j \in LevelMembers(pcall.plan, level) :
                    pcall.plan[j].type = level_types[level + 1]
              /\ \A project_id \in 1..pcall.n :
                    \E j \in LevelMembers(pcall.plan, level) :
                        pcall.plan[j].project_id = project_id
        /\ GroupNames(pcall.plan) = level_types
        /\ \A j \in 1..Len(pcall.plan) : pcall.plan[j].priority = PRIORITY_HIGH

C16_Witness ==
    /\ SpeedPlanCase
    /\ pcall.n = 10
    /\ Len(pcall.plan) = 30
    /\ Cardinality(LevelMembers(pcall.plan, 2)) = 10
    /\ pcall.plan[30].priority = PRIORITY_HIGH

CreateEnded == create.state \in {"returned", "raised"}

\* the errors create_batch raises itself (ValueError)
ValidationErrors == {"size_limit", "no_valid_projects"}

NoValidProject ==
    \A j \in 1..Len(create.project_ids) : KindOf(create.db, create.project_ids[j]) # "ready"

HasDuplicate(ids) == \E i, j \in 1..Len(ids) : i # j /\ ids[i] = ids[j]

NothingPersisted == store = NoRecord /\ userIndex = FALSE

\* C17: create_batch with more than 50 ids, with no id, or with no project
\* that passes validation raises a validation error and writes neither the
\* batch record nor the per-user index entry.
C17_InvalidRequestRejected ==
    (/\ CreateEnded
     /\ \/ Len(create.project_ids) > max_projects_per_batch
        \/ create.project_ids = <<>>
        \/ NoValidProject)
    => (create.state = "raised" /\ create.error \in ValidationErrors /\ NothingPersisted)

\* C18: create_batch with a list that repeats an id raises a validation
\* error and creates no batch.
C18_DuplicateRejected ==
    (CreateEnded /\ HasDuplicate(create.project_ids))
    => (create.state = "raised" /\ create.error \in ValidationErrors /\ NothingPersisted)

\* C19: execute_batch on a batch id with no stored record raises and changes
\* nothing: no record is written, no progress entry is created, no task is
\* submitted.
C19_UnknownBatchRaises ==
    [][\A e \in Execs :
          (pc[e] = "scheduled" /\ store = NoRecord /\ pc'[e] # pc[e])
          => /\ pc'[e] = "raised"
             /\ exc'[e] \in {"not_found", "store_error:get"}
             /\ UNCHANGED <<store, userIndex, progress, initCount, subCount, calls>>]_vars

C19_Witness ==
    /\ pc[1] = "raised"
    /\ exc[1] = "not_found"
    /\ store = NoRecord
    /\ userIndex = FALSE
    /\ \A p \in ProjectIds : progress[p] = NoEntry
    /\ calls = {}

\* C20: an error of the broadcast step alone never makes a task fail: no
\* task of a running group is in its except branch, or has left it, because
\* of a broadcast error, and no progress entry records one as its failure.
C20_BroadcastNeverFailsTask ==
    /\ \A e \in Execs : \A i \in 1..Len(ts[e]) : ts[e][i].err # "broadcast_error"
    /\ \A p \in ProjectIds : progress[p] # [status |-> "failed", detail |-> "broadcast_error"]

\* C21: once execute_batch has completed, the record read back from the
\* store has status completed, progress 100 and both started_at and
\* completed_at set.
C21_CompletedRecordReadBack ==
    \A e \in Execs :
        pc[e] = "done"
        => /\ LoadedJob(store).status = "completed"
           /\ LoadedJob(store).progress = 100
           /\ LoadedJob(store).started_at
           /\ LoadedJob(store).completed_at

\* C22: without a target, optimize_batch_settings returns parallel_limit 5
\* and quality high for 5 projects and parallel_limit 2 and quality medium
\* for 40; with a target of at most 6 hours the parallel_limit is above 1 for
\* every project count.
C22_OptimalSettings ==
    ocall.state = "returned"
    => /\ (~ocall.has_target /\ ocall.rows = 5)
          => (ocall.settings.parallel_limit = 5 /\ ocall.settings.video_quality = "high")
       /\ (~ocall.has_target /\ ocall.rows = 40)
          => (ocall.settings.parallel_limit = 2 /\ ocall.settings.video_quality = "medium")
       /\ (ocall.has_target /\ ocall.hours <= 6) => ocall.settings.parallel_limit > 1

C22_Witness ==
    /\ ocall.state = "returned"
    /\ ~ocall.has_target
    /\ ocall.rows = 40
    /\ ocall.settings.parallel_limit = 2
    /\ ocall.settings.video_quality = "medium"

\* C24: once init_batch has run, exactly the projects of the batch have a
\* progress entry (all pending right after init_batch), and get_batch_progress
\* reports total = completed + failed + pending = the number of project_ids.
C24_ProgressEntriesMatchBatch ==
    initCount > 0
    => /\ \A p \in ProjectIds : (progress[p] # NoEntry) <=> (p \in SeqToSet(store.project_ids))
       /\ \A e \in Execs :
             pc[e] = "inited" => \A p \in SeqToSet(store.project_ids) : progress[p] = PendingEntry
       /\ LET report == BatchProgressReport(progress) IN
          /\ report.total = report.completed + report.failed + report.pending
          /\ report.total = Len(store.project_ids)

C24_Witness ==
    /\ initCount > 0
    /\ Len(store.project_ids) = 2
    /\ BatchProgressReport(progress).total = 2
    /\ BatchProgressReport(progress).completed = 1
    /\ BatchProgressReport(progress).failed = 1

AllValid ==
    /\ create.project_ids # <<>>
    /\ Len(create.project_ids) <= max_projects_per_batch
    /\ \A j \in 1..Len(create.project_ids) : KindOf(create.db, create.project_ids[j]) = "ready"

\* C23: create_batch on a list whose projects are all valid returns and
\* persists a pending batch at progress 0 with the caller's priority and all
\* the requested projects, which a later get returns.
C23_ValidRequestCreatesBatch ==
    (CreateEnded /\ AllValid)
    => /\ create.state = "returned"
       /\ Found(store)
       /\ LoadedJob(store).status = "pending"
       /\ LoadedJob(store).progress = 0
       /\ LoadedJob(store).priority = PRIORITY_NORMAL
       /\ SeqToSet(LoadedJob(store).project_ids) = SeqToSet(create.project_ids)
       /\ userIndex

\* the descriptors of one project in the returned plan, in plan order
ProjectChain(project_id) == SelectSeq(pcall.plan, LAMBDA t : t.project_id = project_id)

\* C25: in each project's chain the first step has no dependency and every
\* later step's depends_on names exactly the type of the step before it.
C25_ChainDependsOnPreviousStep ==
    pcall.state = "returned"
    => \A project_id \in 1..pcall.n :
          LET chain == ProjectChain(project_id) IN
          /\ chain # <<>>
          /\ chain[1].depends_on = <<>>
          /\ \A i \in 2..Len(chain) : chain[i].depends_on = <<chain[i - 1].type>>

\* position of a type among the scheduler's groups, which run in this order
GroupIndex(execution_plan, type) ==
    CHOOSE g \in 1..Len(GroupNames(execution_plan)) : GroupNames(execution_plan)[g] = type

\* C26: in every plan optimize_batch returns, for each task and each type in
\* its depends_on the same project's task of that type is in the plan, before
\* the task, and in a strictly earlier level (topological level and group).
C26_DependenciesResolveEarlier ==
    pcall.state = "returned"
    => \A j \in 1..Len(pcall.plan) : \A k \in 1..Len(pcall.plan[j].depends_on) :
          \E i \in 1..(j - 1) :
             /\ pcall.plan[i].project_id = pcall.plan[j].project_id
             /\ pcall.plan[i].type = pcall.plan[j].depends_on[k]
             /\ TaskLevel(pcall.plan, pcall.plan[i]) < TaskLevel(pcall.plan, pcall.plan[j])
             /\ GroupIndex(pcall.plan, pcall.plan[i].type) < GroupIndex(pcall.plan, pcall.plan[j].type)

C26_Witness ==
    /\ pcall.state = "returned"
    /\ pcall.n = 2
    /\ Len(pcall.plan) = 6
    /\ pcall.plan[6].project_id = 2
    /\ pcall.plan[6].depends_on = <<"tts">>
    /\ pcall.plan[5] = [pcall.plan[5] EXCEPT !.project_id = 2, !.type = "tts"]
    /\ pcall.plan[5].depends_on = <<"content">>

\* C27: _group_by_dependencies puts every task into a level after the levels
\* of the tasks it depends on: each type in a task's depends_on and each id in
\* its dependencies belongs to a task of a strictly earlier level.
C27_LevelsAreTopological ==
    gcall.state = "returned"
    => \A l \in 1..Len(gcall.levels) : \A i \in 1..Len(gcall.levels[l]) :
          LET task == gcall.levels[l][i] IN
          /\ \A k \in 1..Len(task.depends_on) :
                \E l2 \in 1..(l - 1) : \E i2 \in 1..Len(gcall.levels[l2]) :
                   /\ gcall.levels[l2][i2].project_id = task.project_id
                   /\ gcall.levels[l2][i2].type = task.depends_on[k]
          /\ \A k \in 1..Len(Dependencies(task)) :
                \E l2 \in 1..(l - 1) : \E i2 \in 1..Len(gcall.levels[l2]) :
                   gcall.levels[l2][i2].project_id = Dependencies(task)[k]

\* C28: once a task has been reported, the project's tasks map holds an
\* entry under the task's id whose status is the latest status reported for
\* that task, and no entry is shared by two tasks.
C28_TaskEntryHasLatestStatus ==
    track.entries # <<>>
    => \A p \in ProjectIds :
          /\ \A t \in SeqToSet(TrackTypes) :
                track.reported[p][t] # "new" => track.entries[p].tasks[t] = track.reported[p][t]
          /\ track.entries[p].tasks["unknown"] = "absent"

\* the plan optimize_batch hands to _sort_execution_plan for the call
UnsortedPlan ==
    FlattenProjects([i \in 1..pcall.n |-> i], pcall.settings, pcall.strategy)

\* every pass of the while loop of _sort_execution_plan appends a task
RECURSIVE EveryPassPlaces(_, _, _)
EveryPassPlaces(execution_plan, sorted_plan, completed_types) ==
    IF Len(sorted_plan) >= Len(execution_plan) THEN TRUE
    ELSE LET r == SortPass(execution_plan, 1, sorted_plan, completed_types) IN
         /\ Len(r.sorted_plan) > Len(sorted_plan)
         /\ EveryPassPlaces(execution_plan, r.sorted_plan, r.completed_types)

PlanCount(project_id, type) ==
    Cardinality({j \in 1..Len(pcall.plan) :
                    pcall.plan[j].project_id = project_id /\ pcall.plan[j].type = type})

\* C29: optimize_batch terminates: every pass of the sort loop places a task,
\* and the returned plan holds each synthesized task exactly once (one render
\* task per project, a content and a tts task exactly when requested).
C29_SortTerminatesWithEveryTask ==
    pcall.state = "returned"
    => /\ EveryPassPlaces(UnsortedPlan, <<>>, {})
       /\ Len(pcall.plan) = Len(UnsortedPlan)
       /\ \A j \in 1..Len(UnsortedPlan) :
             PlanCount(UnsortedPlan[j].project_id, UnsortedPlan[j].type) = 1
       /\ \A project_id \in 1..pcall.n :
             /\ PlanCount(project_id, VideoTaskType(pcall.settings)) = 1
             /\ PlanCount(project_id, "content") = IF pcall.settings.generate_content THEN 1 ELSE 0
             /\ PlanCount(project_id, "tts") = IF pcall.settings.generate_tts THEN 1 ELSE 0

C29_Witness ==
    /\ pcall.state = "returned"
    /\ pcall.n = 3
    /\ pcall.strategy = "cost"
    /\ pcall.settings.generate_content
    /\ pcall.settings.generate_tts
    /\ Len(pcall.plan) = 9
    /\ PlanCount(3, "tts") = 1

\* C30: every execute_batch call that has marked its batch processing
\* eventually ends and leaves the stored status completed or failed: the
\* batch never stays in processing forever.
C30_EventuallyTerminalStatus ==
    (store.status = "processing")
    ~> (pc[1] \in {"done", "raised"} /\ store.status \in {"completed", "failed"})

====
